---- MODULE Spec2Model ----
(***************************************************************************)
(* A model of the bladeRF sink of gr-osmosdr:                              *)
(*   - bladerf_sink_c::work / transmit_with_tags (the burst transmission   *)
(*     state machine and the consecutive-failure counter), and             *)
(*   - bladerf_common::open / get_cached_device / close (the registry of   *)
(*     shared device handles, a list of weak pointers behind one mutex).   *)
(*   - bladerf_common::init (the buffer and transfer parameters).          *)
(* Three specifications share the module: SpecSink drives one sink block,  *)
(* SpecRegistry drives several threads that open and release handles, and  *)
(* SpecPolicy runs init over the "buffers", "buflen" and "transfers"       *)
(* device arguments.                                                       *)
(***************************************************************************)
EXTENDS Integers, Sequences, FiniteSets, TLC

VARIABLES
  \* ---- the sink block (bladerf_sink_c / bladerf_common members) ----
  started,                \* the scheduler has called start() and may call work()
  _in_burst,              \* bladerf_sink_c::_in_burst
  _use_metadata,          \* bladerf_common::_use_metadata
  _consecutive_failures,  \* bladerf_common::_consecutive_failures
  pc,                     \* "idle": between calls; "returned": work() has just returned;
                          \* "thrown": work() threw; "crashed": the process died
  call,                   \* what the work() call that has just returned did
  burst,                  \* history: the transmit calls of the burst that is open
  fail_run,               \* history: failing work() calls since the last successful one
  _conv_buf_size,         \* bladerf_common::_conv_buf_size, in samples
  conv_buf_cap,           \* samples the allocation behind _conv_buf holds
  \* ---- the device registry (bladerf_common statics) and its users ----
  _devs,                  \* bladerf_common::_devs: the list of weak pointers (handle ids)
  _devs_mutex,            \* bladerf_common::_devs_mutex: the thread holding it, or NoThread
  handle,                 \* per handle id: physical device, strong count, native connection
  nhandles,               \* native connections opened so far (the next handle id, less one)
  tpc,                    \* per thread: its position in open() / close()
  tdev,                   \* per thread: the devinfo open() was asked for
  ti,                     \* per thread: the position of get_cached_device in _devs
  th,                     \* per thread: the handle it holds, scans or closes
  tres,                   \* per thread: how its last open() call ended
  \* ---- the buffer policy (bladerf_common::init) ----
  dict_buffers,           \* dict["buffers"], or Unset
  dict_buflen,            \* dict["buflen"], or Unset
  dict_transfers,         \* dict["transfers"], or Unset
  _num_buffers,           \* bladerf_common::_num_buffers
  _samples_per_buffer,    \* bladerf_common::_samples_per_buffer
  _num_transfers,         \* bladerf_common::_num_transfers
  inited                  \* init() has run

sinkVars == <<started, _in_burst, _use_metadata, _consecutive_failures,
              pc, call, burst, fail_run, _conv_buf_size, conv_buf_cap>>

regVars == <<_devs, _devs_mutex, handle, nhandles, tpc, tdev, ti, th, tres>>

policyVars == <<dict_buffers, dict_buflen, dict_transfers,
                _num_buffers, _samples_per_buffer, _num_transfers, inited>>

vars == <<sinkVars, regVars, policyVars>>

(***************************************************************************)
(* Bounds of the model.                                                    *)
(***************************************************************************)
MaxItems == 3       \* largest noutput_items handed to work()
MaxTags == 2        \* most tags in the window of one work() call
MaxFailures == 4    \* work() is not called again once the counter is this high
BurstCallsCap == 2  \* the data calls of one burst are counted up to this many
NumThreads == 2     \* threads that own block instances
NumDevices == 2     \* physical devices attached
MaxOpens == 3       \* native connections opened in one run
MaxBuffers == 66    \* largest "buffers" argument
MaxBuflenUnits == 10 \* largest "buflen" argument, in units of 512 samples
MaxTransfers == 34  \* largest "transfers" argument
MaxGrow == 2        \* a long block exceeds the initial buffer by up to this

(***************************************************************************)
(* Program constants.                                                      *)
(***************************************************************************)
INVALID_IDX == -1
BLADERF_ERR_INVAL == -3
WORK_DONE == -1
MAX_CONSECUTIVE_FAILURES == 3
TRAILER_LEN == 4
NUM_BUFFERS == 32
CONV_BUF_SIZE == 4096
NUM_SAMPLES_PER_BUFFER == 4 * 1024
BUFLEN_MULTIPLE == 1024
MAX_DEFAULT_TRANSFERS == 32

BLADERF_META_FLAG_TX_BURST_START == "TX_BURST_START"
BLADERF_META_FLAG_TX_BURST_END == "TX_BURST_END"
BLADERF_META_FLAG_TX_NOW == "TX_NOW"

StartFlags == {BLADERF_META_FLAG_TX_NOW, BLADERF_META_FLAG_TX_BURST_START}

\* The keys a stream tag can carry: the two the sink reacts to, and any other.
TagKeys == {"tx_sob", "tx_eob", "other"}

\* A nonzero status of bladerf_sync_tx (a timeout); 0 is success.
TxErrors == {-6}

(***************************************************************************)
(* Inputs of one work() call.                                              *)
(***************************************************************************)
\* The tags get_tags_in_window() returns for a block of n items: their
\* offsets, made relative to nitems_read(0), lie in 0..n-1.  The list is
\* in the order the runtime hands it over, which the code assumes, and
\* does not enforce, to be sorted.
TagsInWindow(n) ==
  UNION { [1..k -> [key : TagKeys, offset : 0..(n - 1)]] : k \in 0..MaxTags }

\* bladerf_sync_tx is called at most twice per tag and once after the loop.
MaxTx == 2 * MaxTags + 1

IsSorted(tags) ==
  \A i \in 1..(Len(tags) - 1) : tags[i].offset <= tags[i + 1].offset

(***************************************************************************)
(* bladerf_sync_tx: the k-th call of one work() fails iff k = failAt       *)
(* (every failing call ends the work() call, so at most one call fails).   *)
(* A call is logged with the slice of _conv_buf it reads.                  *)
(***************************************************************************)
TxStatus(k, failAt, err) == IF k = failAt THEN err ELSE 0

TxCall(buf, start, count, meta, flags, status) ==
  [buf |-> buf, start |-> start, count |-> count,
   meta |-> meta, flags |-> flags, status |-> status]

EmptyBurst == [data |-> 0, startf |-> 0, startFirst |-> FALSE, sobHere |-> FALSE]

\* History: a data call of the open burst is counted.
CountData(b, flags) ==
  [b EXCEPT !.data = IF @ < BurstCallsCap THEN @ + 1 ELSE @,
            !.startf = IF StartFlags \subseteq flags /\ @ < BurstCallsCap THEN @ + 1 ELSE @,
            !.startFirst = IF StartFlags \subseteq flags THEN b.data = 0 ELSE @]

\* The mutant of SegmentCount: the last sample of the segment is left out.
SegmentCount_Exclusive(start_idx, end_idx) == end_idx - start_idx

\* count = end_idx - start_idx + 1
SegmentCount(start_idx, end_idx) == end_idx - start_idx + 1

\* The mutant of InvalidSegment: an end before the start is let through.
InvalidSegment_MarkerOnly(start_idx, end_idx) == start_idx = INVALID_IDX

\* (start_idx == INVALID_IDX) || (start_idx > end_idx)
InvalidSegment(start_idx, end_idx) ==
  start_idx = INVALID_IDX \/ start_idx > end_idx

(***************************************************************************)
(* transmit_with_tags: the locals at function entry.                       *)
(***************************************************************************)
\* The mutant of TwtEntry: the segment start is the invalid marker at entry.
TwtEntry_StartsInvalid(n, in_burst, b) ==
  [start_idx |-> INVALID_IDX, end_idx |-> n - 1, flags |-> {}, status |-> 0,
   in_burst |-> in_burst, txs |-> << >>, done |-> FALSE, ret |-> 0,
   dropped |-> FALSE, burst |-> b, closed |-> << >>]

TwtEntry(n, in_burst, b) ==
  [start_idx |-> 0, end_idx |-> n - 1, flags |-> {}, status |-> 0,
   in_burst |-> in_burst, txs |-> << >>, done |-> FALSE, ret |-> 0,
   dropped |-> FALSE, burst |-> b, closed |-> << >>]

\* A mutant of TwtSob: the protocol error ends the burst.
TwtSob_ErrorEndsBurst(L, tag) ==
  IF L.in_burst
  THEN [L EXCEPT !.done = TRUE, !.ret = BLADERF_ERR_INVAL, !.in_burst = FALSE]
  ELSE [L EXCEPT !.start_idx = tag.offset,
                 !.flags = @ \cup StartFlags,
                 !.in_burst = TRUE,
                 !.burst = [EmptyBurst EXCEPT !.sobHere = TRUE]]

\* A mutant of TwtSob: the segment keeps starting at the head of the block.
TwtSob_FromBlockStart(L, tag) ==
  IF L.in_burst
  THEN [L EXCEPT !.done = TRUE, !.ret = BLADERF_ERR_INVAL]
  ELSE [L EXCEPT !.flags = @ \cup StartFlags,
                 !.in_burst = TRUE,
                 !.burst = [EmptyBurst EXCEPT !.sobHere = TRUE]]

\* The mutant of TwtSob: a StartOfBurst inside a burst restarts the segment.
TwtSob_Unchecked(L, tag) ==
  [L EXCEPT !.start_idx = tag.offset,
            !.flags = @ \cup StartFlags,
            !.in_burst = TRUE,
            !.burst = [EmptyBurst EXCEPT !.sobHere = TRUE]]

\* The SOB branch of the tag loop.
TwtSob(L, tag) ==
  IF L.in_burst
  THEN [L EXCEPT !.done = TRUE, !.ret = BLADERF_ERR_INVAL]
  ELSE [L EXCEPT !.start_idx = tag.offset,
                 !.flags = @ \cup StartFlags,
                 !.in_burst = TRUE,
                 !.burst = [EmptyBurst EXCEPT !.sobHere = TRUE]]

\* A mutant of TwtTrailer: the flags of the trailer are not cleared after it.
TwtTrailer_KeepsEndFlag(L, n, failAt, err) ==
  LET flags2 == (L.flags \ StartFlags) \cup {BLADERF_META_FLAG_TX_BURST_END}
      st == TxStatus(Len(L.txs) + 1, failAt, err)
      tx == TxCall("zeros", 0, TRAILER_LEN, TRUE, flags2, st)
  IN [L EXCEPT !.txs = Append(@, tx),
               !.status = st,
               !.start_idx = INVALID_IDX,
               !.end_idx = n - 1,
               !.flags = flags2,
               !.in_burst = FALSE,
               !.closed = Append(@, L.burst),
               !.burst = EmptyBurst,
               !.done = (st # 0),
               !.ret = st]

\* The mutant of TwtTrailer: the start flags are not cleared for the trailer.
TwtTrailer_KeepsStartFlags(L, n, failAt, err) ==
  LET flags2 == L.flags \cup {BLADERF_META_FLAG_TX_BURST_END}
      st == TxStatus(Len(L.txs) + 1, failAt, err)
      tx == TxCall("zeros", 0, TRAILER_LEN, TRUE, flags2, st)
  IN [L EXCEPT !.txs = Append(@, tx),
               !.status = st,
               !.start_idx = INVALID_IDX,
               !.end_idx = n - 1,
               !.flags = {},
               !.in_burst = FALSE,
               !.closed = Append(@, L.burst),
               !.burst = EmptyBurst,
               !.done = (st # 0),
               !.ret = st]

\* The trailer of an EOB: 4 zero samples with the burst-end flag, then the reset.
TwtTrailer(L, n, failAt, err) ==
  LET flags2 == (L.flags \ StartFlags) \cup {BLADERF_META_FLAG_TX_BURST_END}
      st == TxStatus(Len(L.txs) + 1, failAt, err)
      tx == TxCall("zeros", 0, TRAILER_LEN, TRUE, flags2, st)
  IN [L EXCEPT !.txs = Append(@, tx),
               !.status = st,
               !.start_idx = INVALID_IDX,
               !.end_idx = n - 1,
               !.flags = {},
               !.in_burst = FALSE,
               !.closed = Append(@, L.burst),
               !.burst = EmptyBurst,
               !.done = (st # 0),
               !.ret = st]

\* The mutant of TwtEob: the trailer is sent whatever the data call returned.
TwtEob_TrailerAnyway(L, tag, n, failAt, err) ==
  IF ~L.in_burst
  THEN [L EXCEPT !.done = TRUE, !.ret = BLADERF_ERR_INVAL]
  ELSE LET e == tag.offset
           L1 == [L EXCEPT !.end_idx = e]
       IN IF InvalidSegment(L1.start_idx, L1.end_idx)
          THEN [L1 EXCEPT !.done = TRUE, !.ret = BLADERF_ERR_INVAL]
          ELSE LET count == SegmentCount(L1.start_idx, L1.end_idx)
                   st == TxStatus(Len(L1.txs) + 1, failAt, err)
                   tx == TxCall("conv", L1.start_idx, count, TRUE, L1.flags, st)
                   L2 == [L1 EXCEPT !.txs = Append(@, tx),
                                    !.status = st,
                                    !.burst = CountData(@, L1.flags)]
               IN TwtTrailer(L2, n, failAt, err)

\* The EOB branch of the tag loop.
TwtEob(L, tag, n, failAt, err) ==
  IF ~L.in_burst
  THEN [L EXCEPT !.done = TRUE, !.ret = BLADERF_ERR_INVAL]
  ELSE LET e == tag.offset
           L1 == [L EXCEPT !.end_idx = e]
       IN IF InvalidSegment(L1.start_idx, L1.end_idx)
          THEN [L1 EXCEPT !.done = TRUE, !.ret = BLADERF_ERR_INVAL]
          ELSE LET count == SegmentCount(L1.start_idx, L1.end_idx)
                   st == TxStatus(Len(L1.txs) + 1, failAt, err)
                   tx == TxCall("conv", L1.start_idx, count, TRUE, L1.flags, st)
                   L2 == [L1 EXCEPT !.txs = Append(@, tx),
                                    !.status = st,
                                    !.burst = CountData(@, L1.flags)]
               IN IF st # 0
                  THEN [L2 EXCEPT !.done = TRUE, !.ret = st]
                  ELSE TwtTrailer(L2, n, failAt, err)

\* One iteration of BOOST_FOREACH(tag, tags).
TwtTag(L, tag, n, failAt, err) ==
  IF tag.key = "tx_sob" THEN TwtSob(L, tag)
  ELSE IF tag.key = "tx_eob" THEN TwtEob(L, tag, n, failAt, err)
  ELSE L

RECURSIVE TwtLoop(_, _, _, _, _, _)
TwtLoop(L, tags, i, n, failAt, err) ==
  IF L.done \/ i > Len(tags) THEN L
  ELSE TwtLoop(TwtTag(L, tags[i], n, failAt, err), tags, i + 1, n, failAt, err)

\* A mutant of TwtTail: the open burst is sent from the head of the block.
TwtTail_WholeBlock(L, failAt, err) ==
  IF L.done THEN L
  ELSE IF L.in_burst
  THEN LET count == SegmentCount(0, L.end_idx)
           st == TxStatus(Len(L.txs) + 1, failAt, err)
           tx == TxCall("conv", 0, count, TRUE, L.flags, st)
       IN [L EXCEPT !.txs = Append(@, tx), !.status = st,
                    !.burst = CountData(@, L.flags),
                    !.done = TRUE, !.ret = st]
  ELSE [L EXCEPT !.done = TRUE, !.ret = L.status]

\* The mutant of TwtTail: the status of the last segment is not returned.
TwtTail_IgnoresStatus(L, failAt, err) ==
  IF L.done THEN L
  ELSE IF L.in_burst
  THEN LET count == SegmentCount(L.start_idx, L.end_idx)
           st == TxStatus(Len(L.txs) + 1, failAt, err)
           tx == TxCall("conv", L.start_idx, count, TRUE, L.flags, st)
       IN [L EXCEPT !.txs = Append(@, tx), !.status = st,
                    !.burst = CountData(@, L.flags),
                    !.done = TRUE, !.ret = 0]
  ELSE [L EXCEPT !.done = TRUE, !.ret = 0]

\* After the loop: a start of burst with no end yet is transmitted.
TwtTail(L, failAt, err) ==
  IF L.done THEN L
  ELSE IF L.in_burst
  THEN LET count == SegmentCount(L.start_idx, L.end_idx)
           st == TxStatus(Len(L.txs) + 1, failAt, err)
           tx == TxCall("conv", L.start_idx, count, TRUE, L.flags, st)
       IN [L EXCEPT !.txs = Append(@, tx), !.status = st,
                    !.burst = CountData(@, L.flags),
                    !.done = TRUE, !.ret = st]
  ELSE [L EXCEPT !.done = TRUE, !.ret = L.status]

\* A mutant of TwtNoTags: the block sent inside a burst does not return, so
\* the code after the loop sends it again.
TwtNoTags_FallsThrough(L, n, failAt, err) ==
  IF L.in_burst
  THEN LET st == TxStatus(Len(L.txs) + 1, failAt, err)
           tx == TxCall("conv", 0, n, TRUE, L.flags, st)
       IN [L EXCEPT !.txs = Append(@, tx), !.status = st,
                    !.burst = CountData(@, L.flags),
                    !.done = (st # 0), !.ret = st]
  ELSE [L EXCEPT !.dropped = TRUE]

\* A mutant of TwtNoTags: the block is sent whatever the burst state.
TwtNoTags_SendsOutsideBurst(L, n, failAt, err) ==
  LET st == TxStatus(Len(L.txs) + 1, failAt, err)
      tx == TxCall("conv", 0, n, TRUE, L.flags, st)
  IN [L EXCEPT !.txs = Append(@, tx), !.status = st,
               !.burst = CountData(@, L.flags),
               !.done = TRUE, !.ret = st]

\* The block without tags: forwarded whole inside a burst, dropped outside.
TwtNoTags(L, n, failAt, err) ==
  IF L.in_burst
  THEN LET st == TxStatus(Len(L.txs) + 1, failAt, err)
           tx == TxCall("conv", 0, n, TRUE, L.flags, st)
       IN [L EXCEPT !.txs = Append(@, tx), !.status = st,
                    !.burst = CountData(@, L.flags),
                    !.done = TRUE, !.ret = st]
  ELSE [L EXCEPT !.dropped = TRUE]

transmit_with_tags(n, tags, in_burst, b, failAt, err) ==
  LET L0 == TwtEntry(n, in_burst, b)
      L1 == IF Len(tags) = 0 THEN TwtNoTags(L0, n, failAt, err) ELSE L0
  IN TwtTail(TwtLoop(L1, tags, 1, n, failAt, err), failAt, err)

(***************************************************************************)
(* The plain path of work(): one transmit of the whole block, no metadata. *)
(***************************************************************************)
\* The mutant of TransmitPlain: the block goes through the burst engine.
TransmitPlain_AsBurst(n, in_burst, b, failAt, err) ==
  transmit_with_tags(n, << >>, in_burst, b, failAt, err)

TransmitPlain(n, in_burst, b, failAt, err) ==
  LET st == TxStatus(1, failAt, err)
  IN [TwtEntry(n, in_burst, b) EXCEPT
        !.txs = << TxCall("conv", 0, n, FALSE, {}, st) >>,
        !.status = st, !.done = TRUE, !.ret = st]

(***************************************************************************)
(* The failure accounting at the end of work().                            *)
(***************************************************************************)
\* A mutant of FailuresAfter: a protocol error is not counted.
FailuresAfter_TransportOnly(ret, failures) ==
  IF ret = 0 THEN 0
  ELSE IF ret = BLADERF_ERR_INVAL THEN failures
  ELSE failures + 1

\* The mutant of FailuresAfter: a success does not reset the counter.
FailuresAfter_NoReset(ret, failures) == IF ret # 0 THEN failures + 1 ELSE failures

FailuresAfter(ret, failures) == IF ret # 0 THEN failures + 1 ELSE 0

\* The mutant of WorkReturnValue: the shutdown comes one failure late.
WorkReturnValue_Late(ret, failures, n) ==
  IF ret # 0 /\ FailuresAfter(ret, failures) > MAX_CONSECUTIVE_FAILURES
  THEN WORK_DONE ELSE n

WorkReturnValue(ret, failures, n) ==
  IF ret # 0 /\ FailuresAfter(ret, failures) >= MAX_CONSECUTIVE_FAILURES
  THEN WORK_DONE ELSE n

NoCall ==
  [n |-> 0, tags |-> << >>, was_in_burst |-> FALSE, was_failures |-> 0,
   meta |-> FALSE, txs |-> << >>, ret |-> 0, dropped |-> FALSE,
   closed |-> << >>, failAt |-> 0, err |-> 0, result |-> 0]

(***************************************************************************)
(* Actions of the sink.                                                    *)
(***************************************************************************)
SinkInit ==
  /\ started = FALSE
  /\ _in_burst \in BOOLEAN      \* not set by the constructor; start() sets it
  /\ _use_metadata \in BOOLEAN  \* "enable_metadata" given or not
  /\ _consecutive_failures = 0
  /\ pc = "idle"
  /\ call = NoCall
  /\ burst = EmptyBurst
  /\ fail_run = 0
  /\ _conv_buf_size = CONV_BUF_SIZE
  /\ conv_buf_cap = CONV_BUF_SIZE   \* init(): malloc of _conv_buf_size samples

\* bladerf_sink_c::start(); the flowgraph may be started again after the
\* block's thread ended with an exception.
Start ==
  /\ pc \in {"idle", "thrown"}
  /\ pc' = "idle"
  /\ call' = NoCall
  /\ started' = TRUE
  /\ _in_burst' = FALSE
  /\ burst' = EmptyBurst
  /\ UNCHANGED <<_use_metadata, _consecutive_failures, fail_run,
                 _conv_buf_size, conv_buf_cap>>
  /\ UNCHANGED <<regVars, policyVars>>

\* work(): "if (noutput_items > _conv_buf_size)".  The recorded size is
\* assigned before realloc is called; a failed realloc leaves the old
\* allocation as it was and work() throws.
ConvBufAfter(n, size, cap, grown) ==
  IF n > size
  THEN [size |-> n, cap |-> IF grown THEN n ELSE cap, thrown |-> ~grown]
  ELSE [size |-> size, cap |-> cap, thrown |-> FALSE]

\* bladerf_sink_c::work(), one whole call on a block of n items.  realloc
\* succeeds or not (grown).  Converting n samples into an allocation that
\* holds fewer writes past its end: the process dies of it (crash) or goes on.
WorkOn(n, tags) ==
  /\ pc = "idle"
  /\ started
  /\ _consecutive_failures < MaxFailures
  /\ \E grown \in BOOLEAN, crash \in BOOLEAN, failAt \in 0..MaxTx, err \in TxErrors :
       LET B == ConvBufAfter(n, _conv_buf_size, conv_buf_cap, grown)
           overrun == n > B.cap
           L == IF _use_metadata
                THEN transmit_with_tags(n, tags, _in_burst, burst, failAt, err)
                ELSE TransmitPlain(n, _in_burst, burst, failAt, err)
           result == WorkReturnValue(L.ret, _consecutive_failures, n)
       IN /\ (n <= _conv_buf_size) => grown
          /\ crash => (overrun /\ ~B.thrown)
          /\ _conv_buf_size' = B.size
          /\ conv_buf_cap' = B.cap
          /\ IF B.thrown \/ crash
             THEN /\ failAt = 0
                  /\ pc' = IF B.thrown THEN "thrown" ELSE "crashed"
                  /\ started' = FALSE
                  /\ call' = [NoCall EXCEPT !.n = n]
                  /\ UNCHANGED <<_in_burst, _consecutive_failures, fail_run, burst>>
             ELSE /\ failAt <= Len(L.txs)
                  /\ _in_burst' = L.in_burst
                  /\ _consecutive_failures' = FailuresAfter(L.ret, _consecutive_failures)
                  /\ fail_run' = IF L.ret = 0 THEN 0 ELSE fail_run + 1
                  /\ burst' = [L.burst EXCEPT !.sobHere = FALSE]
                  /\ call' = [n |-> n, tags |-> tags, was_in_burst |-> _in_burst,
                              was_failures |-> _consecutive_failures,
                              meta |-> _use_metadata, txs |-> L.txs, ret |-> L.ret,
                              dropped |-> L.dropped, closed |-> L.closed,
                              failAt |-> failAt, err |-> err, result |-> result]
                  /\ started' = (result # WORK_DONE)
                  /\ pc' = "returned"
  /\ UNCHANGED _use_metadata
  /\ UNCHANGED <<regVars, policyVars>>

\* work() on a short block with any annotations.
Work == \E n \in 1..MaxItems : \E tags \in TagsInWindow(n) : WorkOn(n, tags)

\* Blocks about as long as the initial conversion buffer, and longer.
LongBlocks == {CONV_BUF_SIZE + k : k \in -1..MaxGrow}

\* A long block carries at most one burst tag, on its first or last item.
LongTags(n) ==
  {<< >>} \cup {<<[key |-> k, offset |-> o]>> : k \in {"tx_sob", "tx_eob"}, o \in {0, n - 1}}

\* work() on a long block.
WorkLong == \E n \in LongBlocks : \E tags \in LongTags(n) : WorkOn(n, tags)

\* The scheduler takes the value work() returned; the call's frame is gone.
WorkReturn ==
  /\ pc = "returned"
  /\ pc' = "idle"
  /\ call' = NoCall
  /\ UNCHANGED <<started, _in_burst, _use_metadata, _consecutive_failures,
                 burst, fail_run, _conv_buf_size, conv_buf_cap>>
  /\ UNCHANGED <<regVars, policyVars>>

SinkNext == Start \/ Work \/ WorkReturn

ConvNext == Start \/ WorkLong \/ WorkReturn

(***************************************************************************)
(* The device registry.  A handle is a bladerf_sptr control block: refs is *)
(* its strong count, a weak pointer to it is expired iff refs = 0, and the *)
(* deleter bladerf_common::close runs in the thread that drops the count   *)
(* to 0.  A match key is modelled by the physical device it resolves to.   *)
(***************************************************************************)
Threads == 1..NumThreads
Devices == 1..NumDevices
NoThread == 0
NoHandle == 0
NoDevice == 0

NoConnection == [dev |-> NoDevice, refs |-> 0, native |-> "none", closes |-> 0]

\* boost::weak_ptr::expired()
Expired(h) == handle[h].refs = 0

\* The mutant of DevinfoMatches: a cached device is never recognised.
DevinfoMatches_Never(devinfo, other_devinfo) == FALSE

\* bladerf_devinfo_matches(&devinfo, &other_devinfo)
DevinfoMatches(devinfo, other_devinfo) == devinfo = other_devinfo

\* The loop of close(): every expired entry is erased from the list.
PruneExpired(devs) == SelectSeq(devs, LAMBDA h : ~Expired(h))

\* boost::unique_lock's destructor when open() returns or throws.
Unlock(t) == IF _devs_mutex = t THEN NoThread ELSE _devs_mutex

RegInit ==
  /\ _devs = << >>
  /\ _devs_mutex = NoThread
  /\ handle = [h \in 1..MaxOpens |-> NoConnection]
  /\ nhandles = 0
  /\ tpc = [t \in Threads |-> "idle"]
  /\ tdev = [t \in Threads |-> NoDevice]
  /\ ti = [t \in Threads |-> 0]
  /\ th = [t \in Threads |-> NoHandle]
  /\ tres = [t \in Threads |-> "none"]

\* open() ends with an exception: the lock is released, no handle is returned.
OpenThrows(t, why) ==
  /\ _devs_mutex' = NoThread
  /\ tpc' = [tpc EXCEPT ![t] = "idle"]
  /\ tdev' = [tdev EXCEPT ![t] = NoDevice]
  /\ ti' = [ti EXCEPT ![t] = 0]
  /\ th' = [th EXCEPT ![t] = NoHandle]
  /\ tres' = [tres EXCEPT ![t] = why]

\* open(): the lock is taken and the device name parsed into a devinfo.
OpenLock(t) ==
  /\ tpc[t] = "idle"
  /\ _devs_mutex = NoThread
  /\ nhandles < MaxOpens
  /\ \E d \in Devices, parsed \in BOOLEAN :
       IF parsed
       THEN /\ _devs_mutex' = t
            /\ tpc' = [tpc EXCEPT ![t] = "scan"]
            /\ tdev' = [tdev EXCEPT ![t] = d]
            /\ ti' = [ti EXCEPT ![t] = 1]
            /\ tres' = [tres EXCEPT ![t] = "none"]
            /\ UNCHANGED th
       ELSE /\ OpenThrows(t, "devinfo_from_str_failed")
  /\ UNCHANGED <<_devs, handle, nhandles>>
  /\ UNCHANGED <<sinkVars, policyVars>>

\* get_cached_device(): bladerf_sptr(dev) takes a temporary strong reference
\* to the next entry, or throws boost::bad_weak_ptr when the entry is expired.
ScanTake(t) ==
  /\ tpc[t] = "scan"
  /\ IF ti[t] > Len(_devs)
     THEN /\ tpc' = [tpc EXCEPT ![t] = "native"]
          /\ UNCHANGED <<_devs_mutex, handle, tdev, ti, th, tres>>
     ELSE LET h == _devs[ti[t]] IN
          IF Expired(h)
          THEN /\ OpenThrows(t, "bad_weak_ptr")
               /\ UNCHANGED handle
          ELSE /\ handle' = [handle EXCEPT ![h].refs = @ + 1]
               /\ th' = [th EXCEPT ![t] = h]
               /\ tpc' = [tpc EXCEPT ![t] = "scan_info"]
               /\ UNCHANGED <<_devs_mutex, tdev, ti, tres>>
  /\ UNCHANGED <<_devs, nhandles>>
  /\ UNCHANGED <<sinkVars, policyVars>>

\* get_cached_device(): bladerf_get_devinfo() on the temporary, which is then
\* destroyed; dropping the last reference runs close() in this thread, which
\* still holds the lock.  Then rv and the match are tested.
ScanInfo(t) ==
  /\ tpc[t] = "scan_info"
  /\ LET h == th[t] IN
     /\ handle' = [handle EXCEPT ![h].refs = @ - 1]
     /\ IF handle[h].refs = 1
        THEN /\ tpc' = [tpc EXCEPT ![t] = "closing"]
             /\ UNCHANGED <<_devs_mutex, tdev, ti, th, tres>>
        ELSE \E rv_ok \in BOOLEAN :
               IF ~rv_ok
               THEN OpenThrows(t, "get_devinfo_failed")
               ELSE IF DevinfoMatches(tdev[t], handle[h].dev)
               THEN /\ tpc' = [tpc EXCEPT ![t] = "scan_return"]
                    /\ UNCHANGED <<_devs_mutex, tdev, ti, th, tres>>
               ELSE /\ tpc' = [tpc EXCEPT ![t] = "scan"]
                    /\ ti' = [ti EXCEPT ![t] = @ + 1]
                    /\ th' = [th EXCEPT ![t] = NoHandle]
                    /\ UNCHANGED <<_devs_mutex, tdev, tres>>
  /\ UNCHANGED <<_devs, nhandles>>
  /\ UNCHANGED <<sinkVars, policyVars>>

\* get_cached_device(): return bladerf_sptr(dev), a second conversion of the
\* weak pointer; open() returns the cached handle and releases the lock.
ScanReturn(t) ==
  /\ tpc[t] = "scan_return"
  /\ LET h == th[t] IN
     IF Expired(h)
     THEN /\ OpenThrows(t, "bad_weak_ptr")
          /\ UNCHANGED handle
     ELSE /\ handle' = [handle EXCEPT ![h].refs = @ + 1]
          /\ _devs_mutex' = Unlock(t)
          /\ tpc' = [tpc EXCEPT ![t] = "holding"]
          /\ tres' = [tres EXCEPT ![t] = "shared"]
          /\ tdev' = [tdev EXCEPT ![t] = NoDevice]
          /\ ti' = [ti EXCEPT ![t] = 0]
          /\ UNCHANGED th
  /\ UNCHANGED <<_devs, nhandles>>
  /\ UNCHANGED <<sinkVars, policyVars>>

\* open(): no cached handle: bladerf_open_with_devinfo(), then the new handle
\* is wrapped with close as its deleter and appended to _devs.  Whether the
\* library opens the device or refuses is the library's choice; the registry
\* does not look at the connections that are still open.
OpenNative(t) ==
  /\ tpc[t] = "native"
  /\ \E rv_ok \in BOOLEAN :
       IF ~rv_ok
       THEN /\ OpenThrows(t, "open_failed")
            /\ UNCHANGED <<_devs, handle, nhandles>>
       ELSE LET h == nhandles + 1 IN
            /\ nhandles' = h
            /\ handle' = [handle EXCEPT ![h] = [dev |-> tdev[t], refs |-> 1,
                                                native |-> "open", closes |-> 0]]
            /\ _devs' = Append(_devs, h)
            /\ _devs_mutex' = Unlock(t)
            /\ tpc' = [tpc EXCEPT ![t] = "holding"]
            /\ th' = [th EXCEPT ![t] = h]
            /\ tres' = [tres EXCEPT ![t] = "opened"]
            /\ tdev' = [tdev EXCEPT ![t] = NoDevice]
            /\ ti' = [ti EXCEPT ![t] = 0]
  /\ UNCHANGED <<sinkVars, policyVars>>

\* The mutant of Release: the deleter is entered at every release.
Release_ClosesAtOnce(t) ==
  /\ tpc[t] = "holding"
  /\ handle' = [handle EXCEPT ![th[t]].refs = @ - 1]
  /\ tpc' = [tpc EXCEPT ![t] = "closing"]
  /\ UNCHANGED <<_devs, _devs_mutex, nhandles, tdev, ti, th, tres>>
  /\ UNCHANGED <<sinkVars, policyVars>>

\* The owner drops its bladerf_sptr; at count 0 the deleter close() is entered.
Release(t) ==
  /\ tpc[t] = "holding"
  /\ LET h == th[t] IN
     /\ handle' = [handle EXCEPT ![h].refs = @ - 1]
     /\ IF handle[h].refs = 1
        THEN /\ tpc' = [tpc EXCEPT ![t] = "closing"]
             /\ UNCHANGED th
        ELSE /\ tpc' = [tpc EXCEPT ![t] = "idle"]
             /\ th' = [th EXCEPT ![t] = NoHandle]
  /\ UNCHANGED <<_devs, _devs_mutex, nhandles, tdev, ti, tres>>
  /\ UNCHANGED <<sinkVars, policyVars>>

\* The mutant of Close: only the entry of the handle being closed is removed.
Close_RemovesOwnEntry(t) ==
  /\ tpc[t] = "closing"
  /\ _devs_mutex = NoThread
  /\ _devs' = SelectSeq(_devs, LAMBDA h : h # th[t])
  /\ handle' = [handle EXCEPT ![th[t]].native = "closed", ![th[t]].closes = @ + 1]
  /\ tpc' = [tpc EXCEPT ![t] = "idle"]
  /\ th' = [th EXCEPT ![t] = NoHandle]
  /\ tdev' = [tdev EXCEPT ![t] = NoDevice]
  /\ ti' = [ti EXCEPT ![t] = 0]
  /\ UNCHANGED <<_devs_mutex, nhandles, tres>>
  /\ UNCHANGED <<sinkVars, policyVars>>

\* close(): under the lock, the expired entries are pruned and the native
\* connection is closed.
Close(t) ==
  /\ tpc[t] = "closing"
  /\ _devs_mutex = NoThread
  /\ _devs' = PruneExpired(_devs)
  /\ handle' = [handle EXCEPT ![th[t]].native = "closed", ![th[t]].closes = @ + 1]
  /\ tpc' = [tpc EXCEPT ![t] = "idle"]
  /\ th' = [th EXCEPT ![t] = NoHandle]
  /\ tdev' = [tdev EXCEPT ![t] = NoDevice]
  /\ ti' = [ti EXCEPT ![t] = 0]
  /\ UNCHANGED <<_devs_mutex, nhandles, tres>>
  /\ UNCHANGED <<sinkVars, policyVars>>

RegNext ==
  \E t \in Threads :
    \/ OpenLock(t)
    \/ ScanTake(t)
    \/ ScanInfo(t)
    \/ ScanReturn(t)
    \/ OpenNative(t)
    \/ Release(t)
    \/ Close(t)

(***************************************************************************)
(* The buffer policy: the tail of bladerf_common::init.  A device argument *)
(* is absent from the dictionary (Unset) or holds a non-negative integer.  *)
(***************************************************************************)
Unset == -1

BufferArgs == {Unset} \cup 0..MaxBuffers
BuflenArgs == {Unset} \cup {512 * k : k \in 0..MaxBuflenUnits} \cup {1500}
TransferArgs == {Unset} \cup 0..MaxTransfers

\* x = 0; if (dict.count(key)) x = boost::lexical_cast<size_t>(dict[key]);
ParseArg(arg) == IF arg = Unset THEN 0 ELSE arg

\* The mutant of NumBuffers: a single buffer is accepted.
NumBuffers_AcceptsOne(buffers) == IF buffers < 1 THEN NUM_BUFFERS ELSE buffers

\* if (_num_buffers <= 1) _num_buffers = NUM_BUFFERS;
NumBuffers(buffers) == IF buffers <= 1 THEN NUM_BUFFERS ELSE buffers

\* The mutant of SamplesPerBuffer: only too small a value is replaced.
SamplesPerBuffer_AnyLength(buflen) ==
  IF buflen = 0 THEN NUM_SAMPLES_PER_BUFFER
  ELSE IF buflen < BUFLEN_MULTIPLE THEN NUM_SAMPLES_PER_BUFFER
  ELSE buflen

\* The default for 0, and for a value that is no positive multiple of 1024.
SamplesPerBuffer(buflen) ==
  IF buflen = 0 THEN NUM_SAMPLES_PER_BUFFER
  ELSE IF buflen < BUFLEN_MULTIPLE \/ buflen % BUFLEN_MULTIPLE # 0
       THEN NUM_SAMPLES_PER_BUFFER
       ELSE buflen

\* The mutant of NumTransfers: the default is not capped.
NumTransfers_Uncapped(transfers, buffers) ==
  IF transfers = 0 THEN buffers \div 2
  ELSE IF transfers >= buffers THEN buffers - 1
  ELSE transfers

\* min(32, num_buffers / 2) for 0, and the clamp to num_buffers - 1.
NumTransfers(transfers, buffers) ==
  IF transfers = 0
  THEN IF buffers \div 2 > MAX_DEFAULT_TRANSFERS
       THEN MAX_DEFAULT_TRANSFERS
       ELSE buffers \div 2
  ELSE IF transfers >= buffers THEN buffers - 1
  ELSE transfers

\* The block is constructed without the three arguments; init() has run.
PolicyDone ==
  /\ dict_buffers = Unset
  /\ dict_buflen = Unset
  /\ dict_transfers = Unset
  /\ _num_buffers = NumBuffers(0)
  /\ _samples_per_buffer = SamplesPerBuffer(0)
  /\ _num_transfers = NumTransfers(0, NumBuffers(0))
  /\ inited = TRUE

\* The arguments are given; init() has not run yet.
PolicyInit ==
  /\ dict_buffers \in BufferArgs
  /\ dict_buflen \in BuflenArgs
  /\ dict_transfers \in TransferArgs
  /\ _num_buffers = 0
  /\ _samples_per_buffer = 0
  /\ _num_transfers = 0
  /\ inited = FALSE

\* bladerf_common::init(): "Initialize buffer and sample configuration".
InitBuffers ==
  /\ ~inited
  /\ LET buffers == NumBuffers(ParseArg(dict_buffers)) IN
       /\ _num_buffers' = buffers
       /\ _samples_per_buffer' = SamplesPerBuffer(ParseArg(dict_buflen))
       /\ _num_transfers' = NumTransfers(ParseArg(dict_transfers), buffers)
  /\ inited' = TRUE
  /\ UNCHANGED <<dict_buffers, dict_buflen, dict_transfers>>
  /\ UNCHANGED <<sinkVars, regVars>>

PolicyNext == InitBuffers

Init == SinkInit /\ RegInit /\ PolicyDone

\* One sink block; the registry is left alone.
SpecSink == Init /\ [][SinkNext]_vars

\* Threads opening and releasing handles; the sink block is not started.
InitRegistry == Init /\ ~_in_burst /\ ~_use_metadata

SpecRegistry == InitRegistry /\ [][RegNext]_vars

\* The sink fed with long blocks.
SpecConv == Init /\ [][ConvNext]_vars

\* init() over every combination of the three arguments.
InitPolicy == SinkInit /\ ~_in_burst /\ ~_use_metadata /\ RegInit /\ PolicyInit

SpecPolicy == InitPolicy /\ [][PolicyNext]_vars

(***************************************************************************)
(* Reading the call that has just returned.                                *)
(***************************************************************************)
Returned == pc = "returned"
BurstCall == Returned /\ call.meta

\* The locals of the returned call when its i-th tag was met.
AtTag(i) ==
  TwtLoop(TwtEntry(call.n, call.was_in_burst, EmptyBurst),
          SubSeq(call.tags, 1, i - 1), 1, call.n, call.failAt, call.err)

IsTrailer(tx) == tx.buf = "zeros"
IsData(tx) == tx.buf = "conv"

DataTx(start, count, flags) == TxCall("conv", start, count, TRUE, flags, 0)
TrailerTx == TxCall("zeros", 0, TRAILER_LEN, TRUE, {BLADERF_META_FLAG_TX_BURST_END}, 0)

OutOfTurn(i) ==
  LET L == AtTag(i) IN
    /\ ~L.done
    /\ \/ call.tags[i].key = "tx_eob" /\ ~L.in_burst
       \/ call.tags[i].key = "tx_sob" /\ L.in_burst

C4_OutOfTurnIsProtocolError ==
  BurstCall =>
    \A i \in DOMAIN call.tags :
      OutOfTurn(i) =>
        /\ call.ret = BLADERF_ERR_INVAL
        /\ call.txs = AtTag(i).txs

\* A second StartOfBurst after one accepted in the same block, and an
\* EndOfBurst after a burst closed in the same block.
C4_Witness ==
  /\ BurstCall
  /\ Len(call.tags) = 2
  /\ OutOfTurn(2)
  /\ call.tags[2].key = "tx_eob"
  /\ Len(call.txs) = 2

(***************************************************************************)
(* C5: an EndOfBurst whose offset is below the recorded segment start      *)
(* makes the call return BLADERF_ERR_INVAL with no transmit call issued    *)
(* for that segment.                                                       *)
(***************************************************************************)
Inverted(i) ==
  LET L == AtTag(i) IN
    /\ ~L.done
    /\ call.tags[i].key = "tx_eob"
    /\ L.in_burst
    /\ call.tags[i].offset < L.start_idx

C5_InvertedSegmentIsProtocolError ==
  BurstCall =>
    \A i \in DOMAIN call.tags :
      Inverted(i) =>
        /\ call.ret = BLADERF_ERR_INVAL
        /\ call.txs = AtTag(i).txs

C5_Witness ==
  /\ BurstCall
  /\ Len(call.tags) = 2
  /\ Inverted(2)
  /\ call.txs = << >>
  /\ call.ret = BLADERF_ERR_INVAL

(***************************************************************************)
(* C6: a block without tags processed while InBurst is sent in exactly one *)
(* transmit call, whole, with no flag, and the state stays InBurst.        *)
(***************************************************************************)
C6_PlainBlockInBurstForwarded ==
  (BurstCall /\ call.tags = << >> /\ call.was_in_burst) =>
    /\ Len(call.txs) = 1
    /\ call.txs[1].buf = "conv"
    /\ call.txs[1].start = 0
    /\ call.txs[1].count = call.n
    /\ call.txs[1].flags = {}
    /\ _in_burst

C6_Witness ==
  /\ BurstCall /\ call.tags = << >> /\ call.was_in_burst
  /\ call.n = MaxItems
  /\ call.ret = 0

(***************************************************************************)
(* C7: a block without tags processed while Idle is dropped: no transmit   *)
(* call, the drop is reported, and the state stays Idle.                   *)
(***************************************************************************)
C7_PlainBlockIdleDropped ==
  (BurstCall /\ call.tags = << >> /\ ~call.was_in_burst) =>
    /\ call.txs = << >>
    /\ call.dropped
    /\ ~_in_burst

C7_Witness ==
  /\ BurstCall /\ call.tags = << >> /\ ~call.was_in_burst
  /\ call.n = MaxItems
  /\ call.dropped

(***************************************************************************)
(* C8: from Idle, the tags [StartOfBurst at a, EndOfBurst at b] with       *)
(* a <= b and a working transport give exactly two transmit calls, the     *)
(* samples a..b with the start flags and then 4 zeros with the end flag;   *)
(* the call returns 0 and leaves the state Idle.                           *)
(***************************************************************************)
SobEobCall(a, b) ==
  /\ BurstCall
  /\ ~call.was_in_burst
  /\ call.tags = << [key |-> "tx_sob", offset |-> a], [key |-> "tx_eob", offset |-> b] >>
  /\ call.failAt = 0

C8_SobEobInOneBlock ==
  \A a \in 0..(call.n - 1), b \in 0..(call.n - 1) :
    (SobEobCall(a, b) /\ a <= b) =>
      /\ call.txs = << DataTx(a, b - a + 1, StartFlags), TrailerTx >>
      /\ call.ret = 0
      /\ ~_in_burst

\* The segment leaves out samples at both ends of the block.
C8_Witness ==
  /\ SobEobCall(1, 1)
  /\ call.n = 3
  /\ Len(call.txs) = 2

(***************************************************************************)
(* C9: the failure counter is the number of failing work() calls since the *)
(* last successful one (0 right after a success), and work() signals the   *)
(* shutdown only with MAX_CONSECUTIVE_FAILURES failures in a row.          *)
(***************************************************************************)
C9_CounterCountsConsecutiveFailures ==
  /\ _consecutive_failures = fail_run
  /\ (Returned /\ call.ret = 0) => _consecutive_failures = 0
  /\ (Returned /\ call.result = WORK_DONE) => fail_run >= MAX_CONSECUTIVE_FAILURES
  /\ (Returned /\ fail_run >= MAX_CONSECUTIVE_FAILURES) => call.result = WORK_DONE

C9_Witness ==
  /\ Returned
  /\ fail_run = MAX_CONSECUTIVE_FAILURES
  /\ call.result = WORK_DONE

(***************************************************************************)
(* C10: work() returns WORK_DONE iff this call failed and the counter,     *)
(* this call counted, is at or above the threshold; otherwise it returns   *)
(* noutput_items.                                                          *)
(***************************************************************************)
C10_WorkDoneIffThreshold ==
  Returned =>
    /\ call.result = WORK_DONE <=>
         (call.ret # 0 /\ _consecutive_failures >= MAX_CONSECUTIVE_FAILURES)
    /\ call.result # WORK_DONE => call.result = call.n

\* A failing call below the threshold still reports the block consumed.
C10_Witness ==
  /\ Returned
  /\ call.ret # 0
  /\ _consecutive_failures = MAX_CONSECUTIVE_FAILURES - 1
  /\ call.result = call.n

(***************************************************************************)
(* Reading the registry.                                                   *)
(***************************************************************************)
Opened == 1..nhandles
NativeOpen(h) == handle[h].native = "open"
Holders(h) == {t \in Threads : tpc[t] = "holding" /\ th[t] = h}
\* Threads inside get_cached_device with a temporary reference to h.
Scanners(h) == {t \in Threads : tpc[t] = "scan_info" /\ th[t] = h}
Quiescent == \A t \in Threads : tpc[t] = "idle"

(***************************************************************************)
(* C2: under any interleaving of opens and releases, no two native         *)
(* connections are open at the same time for the same physical device.     *)
(***************************************************************************)
C2_OneConnectionPerDevice ==
  \A h1 \in Opened, h2 \in Opened :
    (h1 # h2 /\ NativeOpen(h1) /\ NativeOpen(h2)) => handle[h1].dev # handle[h2].dev

(***************************************************************************)
(* C3: two open calls for the same physical device that both hold their    *)
(* handle share one native connection, opened by at most one of them and   *)
(* still open, whose reference count is the number of its holders (2 for   *)
(* two); once every handle is released no native connection is open.       *)
(***************************************************************************)
C3_SharedHandle ==
  /\ \A t1 \in Threads, t2 \in Threads :
       ( /\ t1 # t2
         /\ tpc[t1] = "holding" /\ tpc[t2] = "holding"
         /\ handle[th[t1]].dev = handle[th[t2]].dev )
       => /\ th[t1] = th[t2]
          /\ NativeOpen(th[t1])
          /\ handle[th[t1]].refs = Cardinality(Holders(th[t1])) + Cardinality(Scanners(th[t1]))
          /\ ~(tres[t1] = "opened" /\ tres[t2] = "opened")
  /\ Quiescent => \A h \in Opened : ~NativeOpen(h)

\* Both opens done, one native, one shared, and both handles released again.
C3_Witness ==
  /\ Quiescent
  /\ nhandles = 1
  /\ handle[1].native = "closed"
  /\ handle[1].closes = 1
  /\ \E t1 \in Threads, t2 \in Threads : tres[t1] = "opened" /\ tres[t2] = "shared"

(***************************************************************************)
(* Reading the buffer policy.                                              *)
(***************************************************************************)
Min(a, b) == IF a < b THEN a ELSE b
IsSet(arg) == arg # Unset
PositiveMultiple(x, m) == x > 0 /\ x % m = 0

(***************************************************************************)
(* C11: whatever the arguments, init leaves _num_buffers >= 2,             *)
(* _samples_per_buffer a positive multiple of 1024 and                     *)
(* 1 <= _num_transfers < _num_buffers.                                     *)
(***************************************************************************)
C11_ParametersValid ==
  inited =>
    /\ _num_buffers >= 2
    /\ PositiveMultiple(_samples_per_buffer, 1024)
    /\ 1 <= _num_transfers
    /\ _num_transfers < _num_buffers

\* The smallest accepted buffer count with more transfers asked for than buffers.
C11_Witness ==
  /\ inited
  /\ dict_buffers = 2
  /\ dict_transfers = MaxTransfers
  /\ dict_buflen = 512
  /\ _num_transfers = 1

(***************************************************************************)
(* C12: _samples_per_buffer is 4096 when "buflen" is unset, 4096 when it   *)
(* is set to a value that is no positive multiple of 1024, and the value   *)
(* given when that is a positive multiple of 1024.                         *)
(***************************************************************************)
C12_SamplesPerBuffer ==
  inited =>
    /\ ~IsSet(dict_buflen) => _samples_per_buffer = 4096
    /\ (IsSet(dict_buflen) /\ ~PositiveMultiple(dict_buflen, 1024))
         => _samples_per_buffer = 4096
    /\ (IsSet(dict_buflen) /\ PositiveMultiple(dict_buflen, 1024))
         => _samples_per_buffer = dict_buflen

C12_Witness ==
  /\ inited
  /\ dict_buflen = 1500
  /\ _samples_per_buffer = 4096

(***************************************************************************)
(* C13 (as stated): _num_transfers is min(_num_buffers / 2, 32) when       *)
(* "transfers" is unset, _num_buffers - 1 when it is set to at least       *)
(* _num_buffers, and the value given otherwise.                            *)
(***************************************************************************)
C13_TransfersAsStated ==
  inited =>
    /\ ~IsSet(dict_transfers) => _num_transfers = Min(_num_buffers \div 2, 32)
    /\ (IsSet(dict_transfers) /\ dict_transfers >= _num_buffers)
         => _num_transfers = _num_buffers - 1
    /\ (IsSet(dict_transfers) /\ dict_transfers < _num_buffers)
         => _num_transfers = dict_transfers

(***************************************************************************)
(* C13 (amended): _num_transfers is min(_num_buffers / 2, 32) when         *)
(* "transfers" is unset or 0, _num_buffers - 1 when it is set to at least  *)
(* _num_buffers, and the value given otherwise.                            *)
(***************************************************************************)
C13_Transfers ==
  inited =>
    /\ (~IsSet(dict_transfers) \/ dict_transfers = 0)
         => _num_transfers = Min(_num_buffers \div 2, 32)
    /\ (IsSet(dict_transfers) /\ dict_transfers >= _num_buffers)
         => _num_transfers = _num_buffers - 1
    /\ (IsSet(dict_transfers) /\ dict_transfers > 0 /\ dict_transfers < _num_buffers)
         => _num_transfers = dict_transfers

\* "transfers=0" with enough buffers for the cap of the default to apply.
C13_Witness ==
  /\ inited
  /\ dict_transfers = 0
  /\ dict_buffers = MaxBuffers
  /\ _num_transfers = 32

(***************************************************************************)
(* C14: whatever the arguments, init leaves at least twice as many buffers *)
(* as transfers.                                                           *)
(***************************************************************************)
C14_TwiceAsManyBuffers ==
  inited => _num_buffers >= 2 * _num_transfers
(***************************************************************************)
(* C15: after every work call that returns, the conversion buffer holds    *)
(* the N samples (2 * N fixed-point values) of that call, and its capacity *)
(* has not dropped below the initial 4096 samples.                         *)
(***************************************************************************)
C15_BufferHoldsBlock ==
  Returned =>
    /\ 2 * conv_buf_cap >= 2 * call.n
    /\ conv_buf_cap >= 4096
InBurstSample(p) ==
  \/ /\ call.was_in_burst
     /\ \A j \in DOMAIN call.tags :
          call.tags[j].key = "tx_eob" => call.tags[j].offset >= p
  \/ \E i \in DOMAIN call.tags :
       /\ call.tags[i].key = "tx_sob"
       /\ call.tags[i].offset <= p
       /\ \A j \in DOMAIN call.tags :
            (j > i /\ call.tags[j].key = "tx_eob") => call.tags[j].offset >= p

(***************************************************************************)
(* C17: when the tags of a block are in non-decreasing offset order, every *)
(* sample of the block handed to the transport lies inside a burst: at or  *)
(* after a StartOfBurst (or in a burst carried over from an earlier call)  *)
(* and at or before the EndOfBurst that ends it.  Samples before a         *)
(* StartOfBurst, after an EndOfBurst or of a block met while Idle are not  *)
(* sent.                                                                   *)
(***************************************************************************)
C17_OnlyBurstSamplesSent ==
  (BurstCall /\ IsSorted(call.tags)) =>
    \A k \in DOMAIN call.txs :
      LET tx == call.txs[k] IN
        IsData(tx) =>
          /\ tx.count >= 1
          /\ \A p \in tx.start..(tx.start + tx.count - 1) :
               p \in 0..(call.n - 1) /\ InBurstSample(p)

\* A burst of one sample in the middle of a block met while Idle.
C17_Witness ==
  /\ BurstCall
  /\ IsSorted(call.tags)
  /\ ~call.was_in_burst
  /\ call.n = 3
  /\ \E k \in DOMAIN call.txs :
       IsData(call.txs[k]) /\ call.txs[k].start = 1 /\ call.txs[k].count = 1
(***************************************************************************)
(* C18: in every run, also after protocol and transport errors, the data   *)
(* calls and the trailer of a burst come after a call that carried the     *)
(* burst-start flag: every burst closed by a trailer had a call with the   *)
(* start flags, that call was the first of the burst, and a burst left     *)
(* open after data was sent for it has had such a first call.              *)
(***************************************************************************)
C18_StartSegmentFirst ==
  BurstCall =>
    /\ \A i \in DOMAIN call.closed :
         call.closed[i].startf >= 1 /\ call.closed[i].startFirst
    /\ burst.data >= 1 => (burst.startf >= 1 /\ burst.startFirst)
(***************************************************************************)
(* C19 (as stated): transmit_with_tags returns the status of the last      *)
(* transmit call it attempted in the invocation.                           *)
(***************************************************************************)
C19_ReturnsLastStatus ==
  (BurstCall /\ call.txs # << >>) =>
    call.ret = call.txs[Len(call.txs)].status

\* The call stopped at a burst tag out of turn or at an inverted segment.
ProtocolError == \E i \in DOMAIN call.tags : OutOfTurn(i) \/ Inverted(i)

(***************************************************************************)
(* C19 (amended): transmit_with_tags returns BLADERF_ERR_INVAL when it     *)
(* stops at a protocol error, whatever the transmit calls before it        *)
(* returned; otherwise it returns the status of the last transmit call it  *)
(* attempted, and 0 when it attempted none.                                *)
(***************************************************************************)
C19_ReturnStatus ==
  BurstCall =>
    IF ProtocolError THEN call.ret = BLADERF_ERR_INVAL
    ELSE IF call.txs = << >> THEN call.ret = 0
    ELSE call.ret = call.txs[Len(call.txs)].status

\* A burst is closed with both transmits successful, then a second
\* EndOfBurst ends the call with the protocol error.
C19_Witness ==
  /\ BurstCall
  /\ ProtocolError
  /\ call.txs # << >>
  /\ IsTrailer(call.txs[Len(call.txs)])
  /\ call.txs[Len(call.txs)].status = 0
  /\ call.ret = BLADERF_ERR_INVAL
(***************************************************************************)
(* C20: with metadata mode disabled every work call issues exactly one     *)
(* transmit call, of the whole converted block of N samples with null      *)
(* metadata, whatever the tags of the block, and leaves the burst state    *)
(* as it was.                                                              *)
(***************************************************************************)
C20_PlainModeOneTransmit ==
  (Returned /\ ~call.meta) =>
    /\ Len(call.txs) = 1
    /\ call.txs[1].buf = "conv"
    /\ call.txs[1].start = 0
    /\ call.txs[1].count = call.n
    /\ call.txs[1].meta = FALSE
    /\ call.txs[1].flags = {}
    /\ _in_burst = call.was_in_burst

\* A block that carries an EndOfBurst and then a StartOfBurst, in plain mode.
C20_Witness ==
  /\ Returned
  /\ ~call.meta
  /\ call.n = MaxItems
  /\ Len(call.tags) = 2
  /\ call.tags[1].key = "tx_eob"
  /\ call.tags[2].key = "tx_sob"
  /\ Len(call.txs) = 1
(***************************************************************************)
(* The data call of the i-th tag, an EndOfBurst met in turn with a valid   *)
(* segment, is the call that failed.                                       *)
(***************************************************************************)
EobDataFailed(i) ==
  LET L == AtTag(i) IN
    /\ ~L.done
    /\ call.tags[i].key = "tx_eob"
    /\ L.in_burst
    /\ ~InvalidSegment(L.start_idx, call.tags[i].offset)
    /\ call.failAt = Len(L.txs) + 1

(***************************************************************************)
(* C21: when the data transmit issued for an EndOfBurst returns a nonzero  *)
(* status, transmit_with_tags returns that status at once: the failed data *)
(* call is the last transmit of the invocation (no trailer), no burst is   *)
(* closed by that tag and the state is still InBurst, whatever tags follow.*)
(***************************************************************************)
C21_EobDataFailureReturnsAtOnce ==
  BurstCall =>
    \A i \in DOMAIN call.tags :
      EobDataFailed(i) =>
        /\ call.ret = call.err
        /\ call.ret # 0
        /\ Len(call.txs) = call.failAt
        /\ IsData(call.txs[call.failAt])
        /\ call.txs[call.failAt].status = call.err
        /\ \A k \in DOMAIN call.txs : k >= call.failAt => ~IsTrailer(call.txs[k])
        /\ Len(call.closed) = Len(AtTag(i).closed)
        /\ _in_burst

\* The failing EndOfBurst is followed by a StartOfBurst in the same block.
C21_Witness ==
  /\ BurstCall
  /\ Len(call.tags) = 2
  /\ EobDataFailed(1)
  /\ call.tags[2].key = "tx_sob"
  /\ call.ret = call.err
(***************************************************************************)
(* The i-th tag is a StartOfBurst accepted in Idle and no burst tag        *)
(* follows it in the block: the burst is open at the end of the block.     *)
(***************************************************************************)
OpenSobAt(i) ==
  /\ call.tags[i].key = "tx_sob"
  /\ ~AtTag(i).done
  /\ ~AtTag(i).in_burst
  /\ \A j \in DOMAIN call.tags : j > i => call.tags[j].key = "other"

(***************************************************************************)
(* C22: when the tags of a block have all been processed and the burst of  *)
(* a StartOfBurst at offset s is still open, transmit_with_tags issues one *)
(* more transmit, of the samples s..B-1 with the start flags, returns its  *)
(* status and leaves the state InBurst.                                    *)
(***************************************************************************)
C22_OpenBurstSentToBlockEnd ==
  BurstCall =>
    \A i \in DOMAIN call.tags :
      OpenSobAt(i) =>
        LET s == call.tags[i].offset
            last == Len(call.txs)
        IN /\ last = Len(AtTag(i).txs) + 1
           /\ call.txs[last].buf = "conv"
           /\ call.txs[last].start = s
           /\ call.txs[last].count = call.n - s
           /\ call.txs[last].meta
           /\ call.txs[last].flags = StartFlags
           /\ call.ret = call.txs[last].status
           /\ _in_burst

\* A burst is closed at sample 0 and the next one opens at sample 1.
C22_Witness ==
  /\ BurstCall
  /\ call.n = 3
  /\ Len(call.tags) = 2
  /\ call.tags[1].key = "tx_eob"
  /\ OpenSobAt(2)
  /\ call.tags[2].offset = 1
  /\ Len(call.txs) = 3
(***************************************************************************)
(* The call began inside a burst and its first burst tag, the i-th tag, is *)
(* an EndOfBurst.                                                          *)
(***************************************************************************)
CarriedBurstEndsAt(i) ==
  /\ BurstCall
  /\ call.was_in_burst
  /\ i \in DOMAIN call.tags
  /\ call.tags[i].key = "tx_eob"
  /\ \A j \in 1..(i - 1) : call.tags[j].key = "other"

(***************************************************************************)
(* C23: a block met InBurst whose first burst tag is an EndOfBurst at      *)
(* offset e sends the samples 0..e with no start flags, then on success    *)
(* the trailer of 4 zero samples with the burst-end flag, after which the  *)
(* state is Idle; a StartOfBurst that follows in the block opens a new     *)
(* burst whose data call has the start flags and no end flag.              *)
(***************************************************************************)
C23_CarriedBurstClosed ==
  \A i \in 1..MaxTags :
    CarriedBurstEndsAt(i) =>
      LET e == call.tags[i].offset IN
        /\ Len(call.txs) >= 1
        /\ call.txs[1].buf = "conv"
        /\ call.txs[1].start = 0
        /\ call.txs[1].count = e + 1
        /\ call.txs[1].flags = {}
        /\ call.txs[1].status # 0 => (Len(call.txs) = 1 /\ _in_burst)
        /\ call.txs[1].status = 0 =>
             /\ Len(call.txs) >= 2
             /\ call.txs[2].buf = "zeros"
             /\ call.txs[2].count = TRAILER_LEN
             /\ call.txs[2].flags = {BLADERF_META_FLAG_TX_BURST_END}
             /\ ~AtTag(i + 1).in_burst
             /\ (\A j \in DOMAIN call.tags : j > i => call.tags[j].key = "other")
                  => (Len(call.txs) = 2 /\ ~_in_burst)
             /\ (/\ call.txs[2].status = 0
                 /\ i < Len(call.tags)
                 /\ call.tags[i + 1].key = "tx_sob"
                 /\ \A j \in DOMAIN call.tags : j > i + 1 => call.tags[j].key = "other")
                  => /\ Len(call.txs) = 3
                     /\ call.txs[3].buf = "conv"
                     /\ call.txs[3].start = call.tags[i + 1].offset
                     /\ call.txs[3].count = call.n - call.tags[i + 1].offset
                     /\ call.txs[3].flags = StartFlags
                     /\ _in_burst

\* The carried burst ends at sample 1 and a new one opens at sample 2.
C23_Witness ==
  /\ CarriedBurstEndsAt(1)
  /\ call.n = 3
  /\ call.tags[1].offset = 1
  /\ Len(call.tags) = 2
  /\ call.tags[2] = [key |-> "tx_sob", offset |-> 2]
  /\ call.failAt = 0
  /\ Len(call.txs) = 3
(***************************************************************************)
(* C24: an open call that meets an expired entry while it scans the        *)
(* registry (the last owner has released, the close has not run yet) does  *)
(* not fail because of that entry: no open call ends with the exception    *)
(* of a conversion of an expired weak pointer.                             *)
(***************************************************************************)
C24_ExpiredEntryTolerated ==
  \A t \in Threads : tres[t] # "bad_weak_ptr"
(***************************************************************************)
(* Thread t runs close(): it leaves "closing" in this step.                *)
(***************************************************************************)
CloseStep(t) == tpc[t] = "closing" /\ tpc'[t] = "idle"

InRegistry(h) == \E k \in DOMAIN _devs : _devs[k] = h

(***************************************************************************)
(* C25: the close that follows the release of the last reference removes   *)
(* every expired entry from the registry, the entries of other handles     *)
(* included, keeps the live entries, and closes the native connection of   *)
(* its handle; a handle whose close has completed has no registry entry.   *)
(***************************************************************************)
C25_CloseSweepsExpired ==
  /\ [](\A h \in Opened : handle[h].native = "closed" => ~InRegistry(h))
  /\ [][\A t \in Threads :
          CloseStep(t) =>
            /\ handle[th[t]].refs = 0
            /\ _devs' = SelectSeq(_devs, LAMBDA h : handle[h].refs > 0)
            /\ \A k \in DOMAIN _devs' : handle'[_devs'[k]].refs > 0
            /\ handle[th[t]].native = "open"
            /\ handle'[th[t]].native = "closed"]_vars

\* A close has swept the entry of another handle whose own close is pending.
C25_Witness ==
  \E h1, h2 \in Opened :
    /\ h1 # h2
    /\ handle[h2].native = "closed"
    /\ handle[h1].refs = 0
    /\ NativeOpen(h1)
    /\ ~InRegistry(h1)
(***************************************************************************)
(* C26: the registry lock is never requested by a thread that already      *)
(* holds it: no thread enters close() while it holds the lock in open(),   *)
(* so every open and every close can complete.                             *)
(***************************************************************************)
C26_NoSelfDeadlock ==
  \A t \in Threads : ~(tpc[t] = "closing" /\ _devs_mutex = t)
(***************************************************************************)
(* C27: a failed growth of the conversion buffer leaves the recorded       *)
(* capacity as it was: in every reachable state the recorded capacity      *)
(* _conv_buf_size does not exceed the capacity that is allocated.          *)
(***************************************************************************)
C27_RecordedWithinAllocated ==
  _conv_buf_size <= conv_buf_cap
(***************************************************************************)
(* A trailer was attempted in the call c after a data call that succeeded. *)
(***************************************************************************)
TrailerAttempted(c) ==
  \E k \in DOMAIN c.txs :
    /\ IsTrailer(c.txs[k])
    /\ k > 1
    /\ IsData(c.txs[k - 1])
    /\ c.txs[k - 1].status = 0

\* The call stopped at its i-th tag: a protocol error or a failed data call.
FailedAtTag(i) == OutOfTurn(i) \/ Inverted(i) \/ EobDataFailed(i)

(***************************************************************************)
(* C28: the state goes from InBurst to Idle only when start() is called or *)
(* when a work call has attempted the trailer of an EndOfBurst whose data  *)
(* call succeeded.  A protocol error or a failed data call leaves the      *)
(* state as it was just before the failing step: after a StartOfBurst      *)
(* accepted earlier in the call the state is InBurst although the call     *)
(* returns an error.                                                       *)
(***************************************************************************)
C28_BurstEndsOnlyByStartOrTrailer ==
  /\ [][(_in_burst /\ ~_in_burst') =>
          \/ pc' = "idle"
          \/ (pc' = "returned" /\ call'.meta /\ TrailerAttempted(call'))]_vars
  /\ [](BurstCall =>
          /\ \A i \in DOMAIN call.tags :
               FailedAtTag(i) => (_in_burst = AtTag(i).in_burst /\ call.ret # 0)
          /\ \A i \in DOMAIN call.tags :
               (OpenSobAt(i) /\ call.ret # 0) => _in_burst
          /\ \A i \in DOMAIN call.tags :
               (/\ call.tags[i].key = "tx_sob"
                /\ ~AtTag(i).done
                /\ ~AtTag(i).in_burst
                /\ i < Len(call.tags)
                /\ FailedAtTag(i + 1))
                 => (_in_burst /\ call.ret # 0))

\* A StartOfBurst accepted in Idle, then a second one: protocol error, InBurst.
C28_Witness ==
  /\ BurstCall
  /\ ~call.was_in_burst
  /\ Len(call.tags) = 2
  /\ call.tags[1].key = "tx_sob"
  /\ OutOfTurn(2)
  /\ call.ret = BLADERF_ERR_INVAL
  /\ _in_burst
(***************************************************************************)
(* C29: whatever the order of the tags of a block, every data transmit     *)
(* reads inside the converted block: its start s is at least 0, its count  *)
(* c at least 1 and s + c at most B.  The segment start is not the invalid *)
(* marker when an EndOfBurst is met InBurst, nor when the open segment is  *)
(* sent after the last tag.                                                *)
(***************************************************************************)
C29_DataReadsInsideBlock ==
  BurstCall =>
    /\ \A k \in DOMAIN call.txs :
         IsData(call.txs[k]) =>
           /\ call.txs[k].start >= 0
           /\ call.txs[k].count >= 1
           /\ call.txs[k].start + call.txs[k].count <= call.n
    /\ \A i \in 1..(Len(call.tags) + 1) :
         LET L == AtTag(i) IN
           (/\ ~L.done
            /\ L.in_burst
            /\ (i <= Len(call.tags) => call.tags[i].key = "tx_eob"))
             => L.start_idx # INVALID_IDX

\* Tags out of order: the carried burst ends at the last sample, then a new
\* burst opens at the first one.
C29_Witness ==
  /\ BurstCall
  /\ ~IsSorted(call.tags)
  /\ call.was_in_burst
  /\ call.n = 3
  /\ Len(call.txs) = 3
  /\ call.txs[1].count = 3
  /\ call.txs[3].start = 0
(***************************************************************************)
(* C30: in burst mode a protocol error returned by transmit_with_tags is   *)
(* counted like a transport error: the failure counter goes up by one and  *)
(* work returns N, or the end-of-stream value once the counter has reached *)
(* the threshold, after which work is not called again; a block dropped    *)
(* while Idle returns status 0, so the counter is reset to 0 and work      *)
(* returns N.                                                              *)
(***************************************************************************)
C30_ProtocolErrorCountsAsFailure ==
  BurstCall =>
    /\ call.ret = BLADERF_ERR_INVAL =>
         /\ _consecutive_failures = call.was_failures + 1
         /\ call.result = IF call.was_failures + 1 >= MAX_CONSECUTIVE_FAILURES
                          THEN WORK_DONE ELSE call.n
         /\ call.result = WORK_DONE => ~started
    /\ call.dropped =>
         /\ call.txs = << >>
         /\ call.ret = 0
         /\ _consecutive_failures = 0
         /\ call.result = call.n

\* The protocol error that reaches the threshold: no transmit was attempted
\* and the stream is shut down.
C30_Witness ==
  /\ BurstCall
  /\ call.ret = BLADERF_ERR_INVAL
  /\ call.txs = << >>
  /\ call.was_failures = MAX_CONSECUTIVE_FAILURES - 1
  /\ call.result = WORK_DONE
  /\ ~started

====
